---- MODULE Spec2Model ----
(***************************************************************************)
(* Model of the phishing-awareness form of cybersecurity-education:        *)
(* the session upsert into the Google Sheet (cybersecurity_utils.py) and   *)
(* the Streamlit script run that drives it (app.py).                       *)
(*                                                                         *)
(* The sheet is a grid of rows of cells (strings).  Every gspread call     *)
(* (get_all_values, clear, append_row, update_cell) either takes effect    *)
(* or raises without effect; which calls of an operation raise is an       *)
(* input of the operation: the set F of the indices (1, 2, ...) of the     *)
(* store calls that raise, counted from the start of the operation.        *)
(***************************************************************************)
EXTENDS Integers, Sequences, FiniteSets, TLC

\* ------------------------------------------------------------------ bounds
MaxClock == 2       \* operations on the store per behaviour

\* --------------------------------------------------------------- constants
FIXED_HEADERS ==
  << "Session_ID", "Timestamp_Apertura", "Timestamp_Inizio_Form",
     "Timestamp_Step2", "Timestamp_Completamento", "Dove_Trovato_QR",
     "Fascia_Eta", "Sesso", "Provincia_Nascita", "Titolo_Studio",
     "Status_Finale", "Completato", "User_Agent", "Data_Creazione" >>

NumColumns == Len(FIXED_HEADERS)

\* Column positions in FIXED_HEADERS (1-based, as gspread's update_cell)
ColSession == 1
ColOpened == 2
ColQr == 6
ColAge == 7
ColStatus == 11
ColCompletato == 12
ColUserAgent == 13
ColCreazione == 14

\* Python's None (a key present without a value)
None == "<None>"

\* the session ids: session_<timestamp>_<hash>, abstracted to s1, s2, ...
SessionId(i) == "s" \o ToString(i)
Ids == { SessionId(1), SessionId(2) }

\* datetime.now().strftime('%Y-%m-%d %H:%M:%S') and .isoformat() at clock t
Strftime(t) == "D" \o ToString(t)
Isoformat(t) == "T" \o ToString(t)

\* --------------------------------------------------------- python helpers
\* truthiness of a cell value: `if value:` is false for '' and None
Truthy(v) == v # "" /\ v # None

\* dict.get(key, default)
Get(data, key, default) == IF key \in DOMAIN data THEN data[key] ELSE default

\* dict.update(other): other's keys win
Update(data, other) == other @@ data

\* the empty dict
EmptyDict == [k \in {} |-> ""]

\* ------------------------------------------------------ the store (gspread)
\* worksheet.get_all_values(): the grid of cell values
get_all_values(grid) == grid

\* worksheet.clear(): no cell keeps a value
clear(grid) == << >>

\* faulty variant: a row whose first cell is already in the sheet replaces
\* the row that has it
append_row_Replacing(grid, values) ==
  IF \E i \in 1..Len(grid) : grid[i][1] = values[1]
  THEN [ i \in 1..Len(grid) |-> IF grid[i][1] = values[1] THEN values ELSE grid[i] ]
  ELSE Append(grid, values)

\* worksheet.append_row(values): a new last row; a null value leaves the
\* cell empty, and an empty cell reads back as ''
append_row(grid, values) ==
  Append(grid, [c \in 1..Len(values) |-> IF values[c] = None THEN "" ELSE values[c]])

\* faulty variant: the value goes into the column of every data row
update_cell_EveryRow(grid, r, c, v) ==
  [ i \in 1..Len(grid) |-> IF i >= 2 THEN [grid[i] EXCEPT ![c] = v] ELSE grid[i] ]

\* worksheet.update_cell(row, col, value)
update_cell(grid, r, c, v) == [grid EXCEPT ![r][c] = v]

\* one entry of the record of store calls made by an operation
Entry(op, ok, arg) == [op |-> op, ok |-> ok, arg |-> arg]

\* ------------------------------------------- initialize_google_sheet_structure
\* The result of an operation on the store: the grid it leaves, what it
\* returned, the number of store calls made so far and the record of them.
Outcome(grid, ok, n, log) == [sheet |-> grid, ok |-> ok, n |-> n, log |-> log]

\* lines 129-132, the inner `except Exception`: clear and rewrite the header;
\* a raise here reaches the outer except (line 136) and the result is False.
\* n store calls were made before it.
RecreateFromScratch(grid, F, n, log) ==
  IF (n + 1) \in F
  THEN Outcome(grid, FALSE, n + 1, Append(log, Entry("clear", FALSE, << >>)))
  ELSE IF (n + 2) \in F
  THEN Outcome(clear(grid), FALSE, n + 2,
               log \o << Entry("clear", TRUE, << >>),
                         Entry("append_row", FALSE, FIXED_HEADERS) >>)
  ELSE Outcome(append_row(clear(grid), FIXED_HEADERS), TRUE, n + 2,
               log \o << Entry("clear", TRUE, << >>),
                         Entry("append_row", TRUE, FIXED_HEADERS) >>)

\* faulty variant: the header is rewritten without clearing the sheet first
initialize_WithoutClear(grid, F, n0) ==
  IF (n0 + 1) \in F
  THEN RecreateFromScratch(grid, F, n0 + 1,
                           << Entry("get_all_values", FALSE, << >>) >>)
  ELSE LET existing_data == get_all_values(grid)
           log1 == << Entry("get_all_values", TRUE, << >>) >>
       IN IF existing_data = << >> \/ existing_data[1] # FIXED_HEADERS
          THEN IF (n0 + 2) \in F
               THEN RecreateFromScratch(grid, F, n0 + 2,
                        Append(log1, Entry("append_row", FALSE, FIXED_HEADERS)))
               ELSE Outcome(append_row(grid, FIXED_HEADERS), TRUE, n0 + 2,
                        Append(log1, Entry("append_row", TRUE, FIXED_HEADERS)))
          ELSE Outcome(grid, TRUE, n0 + 1, log1)

\* faulty variant: the outer except (line 136) returns True
initialize_TrueOnError(grid, F, n0) ==
  LET TrueOnError(out) == Outcome(out.sheet, TRUE, out.n, out.log)
  IN IF (n0 + 1) \in F
     THEN TrueOnError(RecreateFromScratch(grid, F, n0 + 1,
                        << Entry("get_all_values", FALSE, << >>) >>))
     ELSE LET existing_data == get_all_values(grid)
              log1 == << Entry("get_all_values", TRUE, << >>) >>
          IN IF existing_data = << >> \/ existing_data[1] # FIXED_HEADERS
             THEN IF (n0 + 2) \in F
                  THEN TrueOnError(RecreateFromScratch(grid, F, n0 + 2,
                           Append(log1, Entry("clear", FALSE, << >>))))
                  ELSE IF (n0 + 3) \in F
                  THEN TrueOnError(RecreateFromScratch(clear(grid), F, n0 + 3,
                           log1 \o << Entry("clear", TRUE, << >>),
                                      Entry("append_row", FALSE, FIXED_HEADERS) >>))
                  ELSE Outcome(append_row(clear(grid), FIXED_HEADERS), TRUE, n0 + 3,
                           log1 \o << Entry("clear", TRUE, << >>),
                                      Entry("append_row", TRUE, FIXED_HEADERS) >>)
             ELSE Outcome(grid, TRUE, n0 + 1, log1)

\* initialize_google_sheet_structure(sheet), lines 93-139; n0 store calls
\* were made before it, by the operation that calls it.
initialize_google_sheet_structure(grid, F, n0) ==
  IF (n0 + 1) \in F
  THEN \* get_all_values raised: line 129
       RecreateFromScratch(grid, F, n0 + 1,
                           << Entry("get_all_values", FALSE, << >>) >>)
  ELSE LET existing_data == get_all_values(grid)
           log1 == << Entry("get_all_values", TRUE, << >>) >>
       IN IF existing_data = << >> \/ existing_data[1] # FIXED_HEADERS
          THEN IF (n0 + 2) \in F
               THEN \* clear raised: line 129
                    RecreateFromScratch(grid, F, n0 + 2,
                                        Append(log1, Entry("clear", FALSE, << >>)))
               ELSE IF (n0 + 3) \in F
               THEN \* append_row raised after the clear: line 129
                    RecreateFromScratch(clear(grid), F, n0 + 3,
                        log1 \o << Entry("clear", TRUE, << >>),
                                   Entry("append_row", FALSE, FIXED_HEADERS) >>)
               ELSE Outcome(append_row(clear(grid), FIXED_HEADERS), TRUE, n0 + 3,
                        log1 \o << Entry("clear", TRUE, << >>),
                                   Entry("append_row", TRUE, FIXED_HEADERS) >>)
          ELSE Outcome(grid, TRUE, n0 + 1, log1)

\* ------------------------------------------------ save_to_google_sheets_fixed
\* faulty variant: the creation time is put first and the session id last
FixedRow_CreationFirst(data, t) ==
  << Strftime(t),
     Get(data, "page_open_timestamp", ""),
     Get(data, "form_started_timestamp", ""),
     Get(data, "step2_timestamp", ""),
     Get(data, "completion_timestamp", ""),
     Get(data, "qr_location", ""),
     Get(data, "age_range", ""),
     Get(data, "gender", ""),
     Get(data, "birth_province", ""),
     Get(data, "education", ""),
     Get(data, "status", ""),
     IF Get(data, "completed", FALSE) = TRUE THEN "Sì" ELSE "No",
     Get(data, "user_agent", ""),
     Get(data, "session_id", "") >>

\* faulty variant: Dove_Trovato_QR and Fascia_Eta change places
FixedRow_QrAfterAge(data, t) ==
  << Get(data, "session_id", ""),
     Get(data, "page_open_timestamp", ""),
     Get(data, "form_started_timestamp", ""),
     Get(data, "step2_timestamp", ""),
     Get(data, "completion_timestamp", ""),
     Get(data, "age_range", ""),
     Get(data, "qr_location", ""),
     Get(data, "gender", ""),
     Get(data, "birth_province", ""),
     Get(data, "education", ""),
     Get(data, "status", ""),
     IF Get(data, "completed", FALSE) = TRUE THEN "Sì" ELSE "No",
     Get(data, "user_agent", ""),
     Strftime(t) >>

\* faulty variant: Completato is written as "Sì" whatever the record says
FixedRow_AlwaysCompleted(data, t) ==
  << Get(data, "session_id", ""),
     Get(data, "page_open_timestamp", ""),
     Get(data, "form_started_timestamp", ""),
     Get(data, "step2_timestamp", ""),
     Get(data, "completion_timestamp", ""),
     Get(data, "qr_location", ""),
     Get(data, "age_range", ""),
     Get(data, "gender", ""),
     Get(data, "birth_province", ""),
     Get(data, "education", ""),
     Get(data, "status", ""),
     "Sì",
     Get(data, "user_agent", ""),
     Strftime(t) >>

\* lines 158-173: the row of 14 values, in the order of FIXED_HEADERS
FixedRow(data, t) ==
  << Get(data, "session_id", ""),
     Get(data, "page_open_timestamp", ""),
     Get(data, "form_started_timestamp", ""),
     Get(data, "step2_timestamp", ""),
     Get(data, "completion_timestamp", ""),
     Get(data, "qr_location", ""),
     Get(data, "age_range", ""),
     Get(data, "gender", ""),
     Get(data, "birth_province", ""),
     Get(data, "education", ""),
     Get(data, "status", ""),
     IF Get(data, "completed", FALSE) = TRUE THEN "Sì" ELSE "No",
     Get(data, "user_agent", ""),
     Strftime(t) >>

\* lines 177-182: the index (from 1, header included) of the first data row
\* whose first cell is the session id; 0 stands for None
ExistingRowIndex(all_data, session_id) ==
  LET hits == { i \in 2..Len(all_data) :
                  Len(all_data[i]) > 0 /\ all_data[i][1] = session_id }
  IN IF hits = {} THEN 0 ELSE CHOOSE i \in hits : \A j \in hits : i <= j

\* lines 186-188: the cells of the row are written one at a time, in column
\* order, and only where the new value is truthy; the first raise ends it
RECURSIVE UpdateCells(_, _, _, _, _)
UpdateCells(out, row_index, fixed_row, col_index, F) ==
  IF col_index > Len(fixed_row) THEN out
  ELSE IF ~Truthy(fixed_row[col_index])
  THEN UpdateCells(out, row_index, fixed_row, col_index + 1, F)
  ELSE IF (out.n + 1) \in F
  THEN Outcome(out.sheet, FALSE, out.n + 1,
               Append(out.log, Entry("update_cell", FALSE,
                                     << row_index, col_index, fixed_row[col_index] >>)))
  ELSE UpdateCells(
         Outcome(update_cell(out.sheet, row_index, col_index, fixed_row[col_index]),
                 TRUE, out.n + 1,
                 Append(out.log, Entry("update_cell", TRUE,
                                       << row_index, col_index, fixed_row[col_index] >>))),
         row_index, fixed_row, col_index + 1, F)

\* faulty variant: a raise of the scan or of the append is swallowed and the
\* upsert returns True
WriteRecord_TrueOnRaise(data, t, F, ini) ==
  LET session_id == Get(data, "session_id", "")
      fixed_row == FixedRow(data, t)
  IN IF (ini.n + 1) \in F
     THEN Outcome(ini.sheet, TRUE, ini.n + 1,
                  Append(ini.log, Entry("get_all_values", FALSE, << >>)))
     ELSE
       LET all_data == get_all_values(ini.sheet)
           existing_row_index == ExistingRowIndex(all_data, session_id)
           read == Outcome(ini.sheet, TRUE, ini.n + 1,
                           Append(ini.log, Entry("get_all_values", TRUE, << >>)))
       IN IF existing_row_index # 0
          THEN UpdateCells(read, existing_row_index, fixed_row, 1, F)
          ELSE IF (read.n + 1) \in F
          THEN Outcome(read.sheet, TRUE, read.n + 1,
                       Append(read.log, Entry("append_row", FALSE, fixed_row)))
          ELSE Outcome(append_row(read.sheet, fixed_row), TRUE, read.n + 1,
                       Append(read.log, Entry("append_row", TRUE, fixed_row)))

\* lines 154-193 of save_to_google_sheets_fixed: what follows a schema check
\* that returned True with outcome ini: build the row, scan, update or append
WriteRecord(data, t, F, ini) ==
  LET session_id == Get(data, "session_id", "")
      fixed_row == FixedRow(data, t)
  IN IF (ini.n + 1) \in F
     THEN Outcome(ini.sheet, FALSE, ini.n + 1,
                  Append(ini.log, Entry("get_all_values", FALSE, << >>)))
     ELSE
       LET all_data == get_all_values(ini.sheet)
           existing_row_index == ExistingRowIndex(all_data, session_id)
           read == Outcome(ini.sheet, TRUE, ini.n + 1,
                           Append(ini.log, Entry("get_all_values", TRUE, << >>)))
       IN IF existing_row_index # 0
          THEN UpdateCells(read, existing_row_index, fixed_row, 1, F)
          ELSE IF (read.n + 1) \in F
          THEN Outcome(read.sheet, FALSE, read.n + 1,
                       Append(read.log, Entry("append_row", FALSE, fixed_row)))
          ELSE Outcome(append_row(read.sheet, fixed_row), TRUE, read.n + 1,
                       Append(read.log, Entry("append_row", TRUE, fixed_row)))

\* faulty variant: the result of the schema check is not looked at
save_IgnoringSchemaCheck(data, handle, grid, t, F) ==
  IF ~handle THEN Outcome(grid, FALSE, 0, << >>)
  ELSE LET ini == initialize_google_sheet_structure(grid, F, 0)
           out == WriteRecord(data, t, F, ini)
       IN Outcome(out.sheet, ini.ok /\ out.ok, out.n, out.log)

\* save_to_google_sheets_fixed(data, sheet), lines 142-198.  handle is
\* whether the sheet object is there (setup_google_sheets gives None
\* otherwise); grid is the content of the store; t is the clock.
save_to_google_sheets_fixed(data, handle, grid, t, F) ==
  IF ~handle THEN Outcome(grid, FALSE, 0, << >>)
  ELSE LET ini == initialize_google_sheet_structure(grid, F, 0)
       IN IF ~ini.ok THEN ini ELSE WriteRecord(data, t, F, ini)

\* ------------------------------------------------ the form (session state)
\* st.context.headers.get('user-agent', 'Unknown')
UserAgentOf(headers) == Get(headers, "user-agent", "Unknown")

\* ---------------------------------------------------- the visit classifier
\* A request: whether st.context.headers can be read at all (it raises
\* otherwise), and the headers sent.
Request(available, headers) == [ available |-> available, headers |-> headers ]

\* what a call gives back: a value, or an exception
Returns(v) == [ raised |-> FALSE, value |-> v ]
Raises == [ raised |-> TRUE, value |-> FALSE ]

\* the characters of the texts the classifier looks at
Chars ==
  ("bot" :> << "b", "o", "t" >>)
  @@ ("crawler" :> << "c", "r", "a", "w", "l", "e", "r" >>)
  @@ ("spider" :> << "s", "p", "i", "d", "e", "r" >>)
  @@ ("scraper" :> << "s", "c", "r", "a", "p", "e", "r" >>)
  @@ ("health" :> << "h", "e", "a", "l", "t", "h" >>)
  @@ ("check" :> << "c", "h", "e", "c", "k" >>)
  @@ ("monitor" :> << "m", "o", "n", "i", "t", "o", "r" >>)
  @@ ("ping" :> << "p", "i", "n", "g" >>)
  @@ ("uptime" :> << "u", "p", "t", "i", "m", "e" >>)
  @@ ("status" :> << "s", "t", "a", "t", "u", "s" >>)
  @@ ("test" :> << "t", "e", "s", "t" >>)
  @@ ("probe" :> << "p", "r", "o", "b", "e" >>)
  @@ ("streamlit-cloud" :> << "s", "t", "r", "e", "a", "m", "l", "i", "t", "-", "c", "l", "o", "u", "d" >>)
  @@ ("streamlit-health" :> << "s", "t", "r", "e", "a", "m", "l", "i", "t", "-", "h", "e", "a", "l", "t", "h" >>)
  @@ ("python-requests" :> << "p", "y", "t", "h", "o", "n", "-", "r", "e", "q", "u", "e", "s", "t", "s" >>)
  @@ ("curl" :> << "c", "u", "r", "l" >>)
  @@ ("wget" :> << "w", "g", "e", "t" >>)
  @@ ("axios" :> << "a", "x", "i", "o", "s" >>)
  @@ ("fetch" :> << "f", "e", "t", "c", "h" >>)
  @@ ("httpx" :> << "h", "t", "t", "p", "x" >>)
  @@ ("healthz" :> << "h", "e", "a", "l", "t", "h", "z" >>)
  @@ ("health-check" :> << "h", "e", "a", "l", "t", "h", "-", "c", "h", "e", "c", "k" >>)
  @@ ("script-health-check" :> << "s", "c", "r", "i", "p", "t", "-", "h", "e", "a", "l", "t", "h", "-", "c", "h", "e", "c", "k" >>)
  @@ ("_stcore/health" :> << "_", "s", "t", "c", "o", "r", "e", "/", "h", "e", "a", "l", "t", "h" >>)
  @@ ("python" :> << "p", "y", "t", "h", "o", "n" >>)
  @@ ("streamlit" :> << "s", "t", "r", "e", "a", "m", "l", "i", "t" >>)
  @@ ("requests" :> << "r", "e", "q", "u", "e", "s", "t", "s" >>)
  @@ ("urllib" :> << "u", "r", "l", "l", "i", "b" >>)
  @@ ("" :> <<  >>)
  @@ ("unknown" :> << "u", "n", "k", "n", "o", "w", "n" >>)
  @@ ("none" :> << "n", "o", "n", "e" >>)
  @@ ("-" :> << "-" >>)
  @@ ("Unknown" :> << "U", "n", "k", "n", "o", "w", "n" >>)
  @@ ("Mozilla/5.0 (X11; Linux x86_64) Gecko/20100101 Firefox/120.0"
        :> << "M", "o", "z", "i", "l", "l", "a", "/", "5", ".", "0", " ",
            "(", "X", "1", "1", ";", " ", "L", "i", "n", "u", "x", " ",
            "x", "8", "6", "_", "6", "4", ")", " ", "G", "e", "c", "k",
            "o", "/", "2", "0", "1", "0", "0", "1", "0", "1", " ", "F",
            "i", "r", "e", "f", "o", "x", "/", "1", "2", "0", ".", "0" >>)
  @@ ("curl/8.4.0" :> << "c", "u", "r", "l", "/", "8", ".", "4", ".", "0" >>)
  @@ ("Python" :> << "P", "y", "t", "h", "o", "n" >>)
  @@ ("Googlebot/2.1 (+http://www.google.com/bot.html)"
        :> << "G", "o", "o", "g", "l", "e", "b", "o", "t", "/", "2", ".",
            "1", " ", "(", "+", "h", "t", "t", "p", ":", "/", "/", "w",
            "w", "w", ".", "g", "o", "o", "g", "l", "e", ".", "c", "o",
            "m", "/", "b", "o", "t", ".", "h", "t", "m", "l", ")" >>)
  @@ ("https://www.google.com/"
        :> << "h", "t", "t", "p", "s", ":", "/", "/", "w", "w", "w", ".",
            "g", "o", "o", "g", "l", "e", ".", "c", "o", "m", "/" >>)
  @@ ("https://demo.example/healthz"
        :> << "h", "t", "t", "p", "s", ":", "/", "/", "d", "e", "m", "o",
            ".", "e", "x", "a", "m", "p", "l", "e", "/", "h", "e", "a",
            "l", "t", "h", "z" >>)
  @@ ("demo.example" :> << "d", "e", "m", "o", ".", "e", "x", "a", "m", "p", "l", "e" >>)

\* str.lower(), str.strip(), len(), pattern in text
ToLower ==
  "A" :> "a" @@ "B" :> "b" @@ "C" :> "c" @@ "D" :> "d" @@ "E" :> "e" @@
  "F" :> "f" @@ "G" :> "g" @@ "H" :> "h" @@ "I" :> "i" @@ "J" :> "j" @@
  "K" :> "k" @@ "L" :> "l" @@ "M" :> "m" @@ "N" :> "n" @@ "O" :> "o" @@
  "P" :> "p" @@ "Q" :> "q" @@ "R" :> "r" @@ "S" :> "s" @@ "T" :> "t" @@
  "U" :> "u" @@ "V" :> "v" @@ "W" :> "w" @@ "X" :> "x" @@ "Y" :> "y" @@
  "Z" :> "z"
Lower(text) ==
  [ i \in 1..Len(text) |-> IF text[i] \in DOMAIN ToLower THEN ToLower[text[i]]
                           ELSE text[i] ]
RECURSIVE Strip(_)
Strip(text) ==
  IF text = << >> THEN text
  ELSE IF Head(text) = " " THEN Strip(Tail(text))
  ELSE IF text[Len(text)] = " " THEN Strip(SubSeq(text, 1, Len(text) - 1))
  ELSE text
Contains(text, pattern) ==
  \E i \in 0..(Len(text) - Len(pattern)) :
    SubSeq(text, i + 1, i + Len(pattern)) = pattern

bot_patterns ==
  << "bot", "crawler", "spider", "scraper", "health", "check", "monitor",
     "ping", "uptime", "status", "test", "probe", "streamlit-cloud",
     "streamlit-health", "python-requests", "curl", "wget", "axios",
     "fetch", "httpx" >>
health_check_patterns ==
  << "healthz", "health-check", "script-health-check", "_stcore/health",
     "ping", "status" >>
simple_patterns == << "python", "streamlit", "requests", "urllib" >>
GenericAgents == << "", "unknown", "none", "-" >>
MinAgentLength == 10
Range(list) == { list[i] : i \in 1..Len(list) }

\* is_bot_or_health_check(), lines 289-346: True for a bot or a health
\* check; any exception inside it gives False (a real user)
is_bot_or_health_check(request) ==
  IF ~request.available THEN FALSE
  ELSE LET user_agent == Lower(Chars[Get(request.headers, "user-agent", "")])
           referer == Lower(Chars[Get(request.headers, "referer", "")])
       IN \/ \E pattern \in Range(bot_patterns) : Contains(user_agent, Chars[pattern])
          \/ \E pattern \in Range(health_check_patterns) :
               Contains(referer, Chars[pattern])
          \/ Len(user_agent) < MinAgentLength
          \/ \E generic \in Range(GenericAgents) : user_agent = Chars[generic]
          \/ \E pattern \in Range(simple_patterns) :
               Strip(user_agent) = Chars[pattern]

\* faulty variant: every visit is tracked
should_track_visit_Always(headers) == TRUE

\* should_track_visit(), lines 377-390
should_track_visit(headers) == UserAgentOf(headers) # "Unknown"

\* a call of should_track_visit(): reading the headers raises when they
\* cannot be read, and nothing in lines 377-390 catches that
should_track_visit_call(request) ==
  IF ~request.available THEN Raises
  ELSE Returns(should_track_visit(request.headers))

\* what a helper of the form gives back: the session state it leaves, what
\* it returned, whether it called save_to_google_sheets_fixed, with which
\* record and with which outcome
Step(ss, returned, saved, data, out) ==
  [ session_state |-> ss, returned |-> returned, saved |-> saved,
    data |-> data, out |-> out ]
NotSaved(grid) == Outcome(grid, TRUE, 0, << >>)

\* initialize_session_state(), lines 541-552; k session ids were generated
\* before
initialize_session_state(ss, k) ==
  LET a == IF "step" \in DOMAIN ss THEN ss ELSE ("step" :> 1) @@ ss
      b == IF "user_data" \in DOMAIN a THEN a ELSE ("user_data" :> EmptyDict) @@ a
  IN IF "session_id" \in DOMAIN b THEN b
     ELSE ("session_id" :> SessionId(k + 1))
          @@ [b EXCEPT !["user_data"] = ("session_id" :> SessionId(k + 1)) @@ @]

\* track_page_opening(), lines 555-578: the definition the module ends up
\* with (the def of lines 393-420, which asks should_track_visit first, is
\* replaced by this one when the module is loaded, and app.py imports this)
track_page_opening(ss, headers, handle, grid, t, F) ==
  IF "page_tracked" \notin DOMAIN ss
  THEN LET user_data ==
             Update(ss["user_data"],
                    [ page_open_timestamp |-> Isoformat(t),
                      status |-> "page_opened",
                      user_agent |-> UserAgentOf(headers),
                      session_id |-> ss["session_id"] ])
           ss1 == ("page_tracked" :> TRUE) @@ [ss EXCEPT !["user_data"] = user_data]
       IN Step(ss1, TRUE, handle, user_data,
               IF handle THEN save_to_google_sheets_fixed(user_data, handle, grid, t, F)
               ELSE NotSaved(grid))
  ELSE Step(ss, FALSE, FALSE, EmptyDict, NotSaved(grid))

\* faulty variant: every input passes
validate_step_data_Always(step, kwargs) == TRUE

\* validate_step_data(step, ...), lines 594-624: is_valid
validate_step_data(step, kwargs) ==
  LET Given(key) == key \in DOMAIN kwargs /\ kwargs[key] # ""
  IN IF step = 1 THEN Get(kwargs, "consent", FALSE) = TRUE /\ Given("qr_location")
     ELSE IF step = 2
     THEN Given("age_range") /\ Given("gender") /\ Given("birth_province")
          /\ Given("education")
     ELSE IF step = 3 THEN Given("email_input")
     ELSE TRUE

\* faulty variant: the session record keeps the step's data only when the
\* store took them
save_step_data_DroppedOnFailure(step, ss, kwargs, handle, grid, t, F) ==
  LET timestamp == Isoformat(t)
      changes ==
        IF step = 1
        THEN [ qr_location |-> Get(kwargs, "qr_location", None),
               form_started_timestamp |-> timestamp,
               status |-> "form_started" ]
        ELSE IF step = 2
        THEN [ age_range |-> Get(kwargs, "age_range", None),
               gender |-> Get(kwargs, "gender", None),
               birth_province |-> Get(kwargs, "birth_province", None),
               education |-> Get(kwargs, "education", None),
               status |-> "step2_completed",
               step2_timestamp |-> timestamp ]
        ELSE IF step = 3
        THEN [ status |-> "fully_completed",
               completion_timestamp |-> timestamp,
               completed |-> TRUE ]
        ELSE EmptyDict
      user_data == Update(ss["user_data"], changes)
      ss1 == [ss EXCEPT !["user_data"] = user_data]
  IN IF handle
     THEN LET out == save_to_google_sheets_fixed(user_data, handle, grid, t, F)
          IN Step(IF out.ok THEN ss1 ELSE ss, out.ok, TRUE, user_data, out)
     ELSE Step(ss1, TRUE, FALSE, user_data, NotSaved(grid))

\* save_step_data(step, sheet, **kwargs), lines 627-669: the definition the
\* module ends up with (it replaces the def of lines 422-468)
save_step_data(step, ss, kwargs, handle, grid, t, F) ==
  LET timestamp == Isoformat(t)
      changes ==
        IF step = 1
        THEN [ qr_location |-> Get(kwargs, "qr_location", None),
               form_started_timestamp |-> timestamp,
               status |-> "form_started" ]
        ELSE IF step = 2
        THEN [ age_range |-> Get(kwargs, "age_range", None),
               gender |-> Get(kwargs, "gender", None),
               birth_province |-> Get(kwargs, "birth_province", None),
               education |-> Get(kwargs, "education", None),
               status |-> "step2_completed",
               step2_timestamp |-> timestamp ]
        ELSE IF step = 3
        THEN [ status |-> "fully_completed",
               completion_timestamp |-> timestamp,
               completed |-> TRUE ]
        ELSE EmptyDict
      user_data == Update(ss["user_data"], changes)
      ss1 == [ss EXCEPT !["user_data"] = user_data]
  IN IF handle
     THEN LET out == save_to_google_sheets_fixed(user_data, handle, grid, t, F)
          IN Step(ss1, out.ok, TRUE, user_data, out)
     ELSE Step(ss1, TRUE, FALSE, user_data, NotSaved(grid))

\* faulty variant: the step goes back to 1, the id and the record stay
reset_session_KeepingRecord(ss, k) ==
  ("page_tracked" :> FALSE) @@ [ss EXCEPT !["step"] = 1]

\* reset_session(), lines 721-731
reset_session(ss, k) ==
  ("page_tracked" :> FALSE)
  @@ [ss EXCEPT !["step"] = 1,
                !["user_data"] = ("session_id" :> SessionId(k + 1)),
                !["session_id"] = SessionId(k + 1)]

\* ------------------------------------------------------------------ state
VARIABLES
  sheet,   \* the store: the grid of the worksheet, header row included
  now,     \* the clock: datetime.now() of the current operation
  call,    \* the last operation on the store: arguments, result, store calls
  hist,    \* history: what the successful upserts supplied so far
  session_state,  \* st.session_state of the browser session
  minted,  \* the number of session ids generated so far
  page,    \* the last run of the script: request, widget values, state before
  visit,   \* the last request put to the visit classifier, and its answers
  procs    \* the upserts in progress of the concurrent writers

vars == << sheet, now, call, hist, session_state, minted, page, visit, procs >>
form == << session_state, minted, page >>
aside == << visit, procs >>

\* Which store calls of an operation raise: the indices of the raising calls.
\* An operation makes at most 5 store calls in the schema check, then the
\* scan and one write per column; it meets at most two raises (the second
\* one, or the first one outside the schema check, ends it).
CallIndex == 1..(NumColumns + 2)
FailurePlans ==
  {{}} \cup { {i} : i \in CallIndex }
       \cup { {i, j} : i \in 1..3, j \in CallIndex }

\* the session records the upsert is called with
QrValues == { "", None, "Bar/Ristorante" }
Optional(key, values) == { EmptyDict } \cup { key :> v : v \in values }
Progress ==
  { EmptyDict,
    "status" :> "form_started",
    ("status" :> "fully_completed") @@ ("completed" :> TRUE) }
Records ==
  { ("session_id" :> id) @@ q @@ p :
      id \in Ids, q \in Optional("qr_location", QrValues), p \in Progress }

\* a row written by an earlier visitor, and a header damaged by a manual edit
OldRow(id) ==
  << id, "T0", "", "", "", "Altro", "", "", "", "", "page_opened", "No",
     "Mozilla/5.0", "D0" >>
\* a second row of the same session, left behind by two writers at once
StaleRow(id) == [OldRow(id) EXCEPT ![ColOpened] = "T1", ![ColCreazione] = "D1"]
DamagedColumns == { ColSession, ColCreazione }
DamagedHeader(c) == [FIXED_HEADERS EXCEPT ![c] = "?"]
InitSheets ==
  { << >>, << FIXED_HEADERS >>, << FIXED_HEADERS, OldRow("s0") >>,
    << FIXED_HEADERS, OldRow("s0"), OldRow(SessionId(1)) >> }
  \cup { << DamagedHeader(c), OldRow("s0") >> : c \in DamagedColumns }
  \cup { << FIXED_HEADERS, OldRow(SessionId(1)), OldRow("s0"), StaleRow(SessionId(1)) >> }

\* the rows of a grid whose first cell is id (the header row is row 1)
RowsOf(grid, id) == { i \in 2..Len(grid) : grid[i][1] = id }
FirstRowOf(grid, id) == CHOOSE i \in RowsOf(grid, id) : \A j \in RowsOf(grid, id) : i <= j
BlankRow == [c \in 1..NumColumns |-> ""]

NoCall ==
  [ op |-> "none", data |-> EmptyDict, handle |-> FALSE, pre |-> << >>,
    checked |-> FALSE, mid |-> << >>, result |-> FALSE, log |-> << >> ]

NoVisit ==
  [ op |-> "none", request |-> Request(TRUE, EmptyDict), track |-> Returns(FALSE),
    bot |-> FALSE ]
NoProcs == << >>

NoPage ==
  [ op |-> "none", headers |-> EmptyDict, kwargs |-> EmptyDict, valid |-> FALSE,
    before |-> EmptyDict, pre |-> << >>, tracked |-> FALSE, returned |-> FALSE ]

History ==
  [ empty0 |-> (sheet = << >>),
    latest |-> [ id \in Ids |-> BlankRow ],
    upserted |-> {},
    allok |-> TRUE ]

\* the record of one call of save_to_google_sheets_fixed: its arguments, the
\* store before it, whether the schema check returned True and the store it
\* left, the result and the store calls made
CallOfSave(data, handle, grid, t, F) ==
  LET out == save_to_google_sheets_fixed(data, handle, grid, t, F)
      ini == initialize_google_sheet_structure(grid, F, 0)
  IN [ op |-> "save", data |-> data, handle |-> handle, pre |-> grid,
       checked |-> handle /\ ini.ok,
       mid |-> IF handle THEN ini.sheet ELSE grid,
       result |-> out.ok, log |-> out.log ]

Init ==
  /\ sheet \in InitSheets
  /\ now = 0
  /\ call = NoCall
  /\ session_state = EmptyDict
  /\ minted = 0
  /\ page = NoPage
  /\ visit = NoVisit
  /\ procs = NoProcs
  /\ hist = History

\* the values a successful upsert supplied, merged over what was supplied before
Merged(old, fixed_row) ==
  [ c \in 1..NumColumns |-> IF Truthy(fixed_row[c]) THEN fixed_row[c] ELSE old[c] ]

\* upsert: one call of save_to_google_sheets_fixed(data, sheet)
Upsert(data, handle, F) ==
  LET out == save_to_google_sheets_fixed(data, handle, sheet, now, F)
      id == data["session_id"]
  IN /\ call.op = "none"
     /\ now < MaxClock
     /\ F \subseteq 1..out.n     \* only a call that is made can raise
     /\ sheet' = out.sheet
     /\ now' = now + 1
     /\ call' = CallOfSave(data, handle, sheet, now, F)
     /\ hist' = [ hist EXCEPT
                    !.allok = @ /\ out.ok,
                    !.upserted = IF out.ok THEN @ \cup { id } ELSE @,
                    !.latest = IF out.ok
                               THEN [ @ EXCEPT ![id] = Merged(@, FixedRow(data, now)) ]
                               ELSE @ ]
     /\ UNCHANGED << form, aside >>

\* ensure_schema: one call of initialize_google_sheet_structure(sheet)
EnsureSchema(F) ==
  LET out == initialize_google_sheet_structure(sheet, F, 0)
  IN /\ call.op = "none"
     /\ now < MaxClock
     /\ F \subseteq 1..out.n
     /\ sheet' = out.sheet
     /\ now' = now + 1
     /\ call' = [ op |-> "init", data |-> EmptyDict, handle |-> TRUE, pre |-> sheet,
                  checked |-> out.ok, mid |-> out.sheet,
                  result |-> out.ok, log |-> out.log ]
     /\ hist' = [ hist EXCEPT !.allok = @ /\ out.ok ]
     /\ UNCHANGED << form, aside >>

\* the operation, or the run of the script, has ended: its arguments and
\* result are dropped
Return ==
  /\ call.op # "none" \/ page.op # "none"
  /\ call' = NoCall
  /\ page' = NoPage
  /\ UNCHANGED << sheet, now, hist, session_state, minted, aside >>

Next ==
  \/ \E data \in Records, handle \in BOOLEAN, F \in FailurePlans : Upsert(data, handle, F)
  \/ \E F \in FailurePlans : EnsureSchema(F)
  \/ Return

Spec == Init /\ [][Next]_vars

\* ------------------------------------------------------- the form: main()
MaxRuns == 6        \* runs of the script that read the clock, per behaviour
MaxSessions == 2    \* session ids generated per behaviour

\* the request headers, and what the visitor can put in the widgets
Headers == Optional("user-agent", { "Mozilla/5.0" })
Step1Inputs ==
  { [ qr_location |-> q, consent |-> c ] :
      q \in { "", "Bar/Ristorante" }, c \in BOOLEAN }
Step2Inputs ==
  { [ age_range |-> a, gender |-> g, birth_province |-> p, education |-> e ] :
      a \in { "", "24-29" }, g \in { "", "Femmina" }, p \in { "", "Roma" },
      e \in { "", "Laurea triennale" } }
\* what is typed in the text_input of step 3 (app.py line 124)
Emails == { "a@b.it", "c@d.it" }
Step3Inputs == { [ email_input |-> m ] : m \in { "" } \cup Emails }

\* the keyword arguments the handler of a step hands to save_step_data
\* (app.py lines 67, 105-111, 139): the QR location at step 1, the four
\* answers at step 2, nothing at step 3
Passed(step, kwargs) ==
  IF step = 1 THEN [ qr_location |-> kwargs["qr_location"] ]
  ELSE IF step = 2 THEN kwargs
  ELSE EmptyDict

\* faulty variant: the handler of step 3 files the e-mail in the record
step_handler_KeepingEmail(step, ss, kwargs, handle, grid, t, F) ==
  save_step_data(step,
                 IF step = 3
                 THEN [ss EXCEPT !["user_data"] =
                         Update(@, [ email |-> kwargs["email_input"] ])]
                 ELSE ss,
                 Passed(step, kwargs), handle, grid, t, F)

\* the body of a handler after validation (app.py lines 65-67, 103-111,
\* 137-139): setup_google_sheets() and save_step_data
step_handler(step, ss, kwargs, handle, grid, t, F) ==
  save_step_data(step, ss, Passed(step, kwargs), handle, grid, t, F)

\* create_data_download(user_data), lines 672-694: the dict that json.dumps
\* renders, key by key
create_data_download(user_data, t) ==
  [ session_id |-> Get(user_data, "session_id", "unknown"),
    completion_timestamp |-> Get(user_data, "completion_timestamp", Isoformat(t)),
    qr_location |-> Get(user_data, "qr_location", ""),
    age_range |-> Get(user_data, "age_range", ""),
    gender |-> Get(user_data, "gender", ""),
    birth_province |-> Get(user_data, "birth_province", ""),
    education |-> Get(user_data, "education", ""),
    status |-> Get(user_data, "status", ""),
    note |-> "Dati raccolti per progetto educativo cybersecurity - Email NON salvata" ]

InitApp ==
  /\ sheet \in { << >>, << FIXED_HEADERS, OldRow("s0") >> }
  /\ now = 0
  /\ call = NoCall
  /\ hist = History
  /\ session_state = EmptyDict
  /\ minted = 0
  /\ page = NoPage
  /\ visit = NoVisit
  /\ procs = NoProcs

\* main(), lines 227-232 of app.py: every run of the script starts with
\* initialize_session_state() and track_page_opening()
Prologue(headers, handle, F) ==
  track_page_opening(initialize_session_state(session_state, minted),
                     headers, handle, sheet, now, F)
Minted == IF "session_id" \in DOMAIN session_state THEN minted ELSE minted + 1

\* what a run leaves behind: tr is the outcome of track_page_opening, st
\* that of save_step_data when the button's handler called it (valid widget
\* values) and ss the session state at the end; the clock moves when the
\* run read it
Ran(op, headers, kwargs, valid, handle, F, tr, st, ss) ==
  LET handled == op = "submit" /\ valid
      last == IF handled THEN st ELSE tr
  IN /\ (tr.returned \/ valid) => now < MaxRuns
     /\ F \subseteq 1..last.out.n
     /\ sheet' = last.out.sheet
     /\ now' = IF tr.returned \/ valid THEN now + 1 ELSE now
     /\ session_state' = ss
     /\ minted' = IF op = "restart" THEN Minted + 1 ELSE Minted
     /\ call' = IF handled /\ st.saved
                THEN CallOfSave(st.data, TRUE, tr.out.sheet, now, F)
                ELSE IF tr.saved THEN CallOfSave(tr.data, TRUE, sheet, now, F)
                ELSE NoCall
     /\ page' = [ op |-> op, headers |-> headers, kwargs |-> kwargs, valid |-> valid,
                  before |-> session_state, pre |-> sheet,
                  tracked |-> tr.returned, returned |-> last.returned ]
     /\ UNCHANGED << hist, aside >>

\* the page is loaded or reloaded, no button is pressed
PageLoad(headers, handle, F) ==
  LET tr == Prologue(headers, handle, F)
  IN /\ page.op = "none"
     /\ Ran("load", headers, EmptyDict, FALSE, handle, F, tr, tr, tr.session_state)

\* a button of steps 1 to 3 is pressed (app.py lines 62-75, 98-114, 132-145):
\* validate, save the step, go to the next step
Submit(step, headers, kwargs, handle, F) ==
  LET tr == Prologue(headers, handle, F)
      ss == tr.session_state
      valid == validate_step_data(step, kwargs)
      st == step_handler(step, ss, kwargs, handle, tr.out.sheet, now, F)
  IN /\ page.op = "none"
     /\ "step" \in DOMAIN session_state
     /\ session_state["step"] = step
     /\ IF valid
        THEN Ran("submit", headers, kwargs, TRUE, handle, F, tr, st,
                 [st.session_state EXCEPT !["step"] = step + 1])
        ELSE /\ ~handle /\ F = {}
             /\ Ran("submit", headers, kwargs, FALSE, handle, F, tr, tr, ss)

\* the button of step 4 is pressed (app.py lines 217-219): reset_session()
Restart(headers, handle, F) ==
  LET tr == Prologue(headers, handle, F)
  IN /\ page.op = "none"
     /\ "step" \in DOMAIN session_state
     /\ session_state["step"] = 4
     /\ minted < MaxSessions
     /\ Ran("restart", headers, EmptyDict, TRUE, handle, F, tr, tr,
            reset_session(tr.session_state, minted))

NextApp ==
  \/ \E headers \in Headers, handle \in BOOLEAN, F \in FailurePlans :
       PageLoad(headers, handle, F)
  \/ \E headers \in Headers, kwargs \in Step1Inputs, handle \in BOOLEAN, F \in FailurePlans :
       Submit(1, headers, kwargs, handle, F)
  \/ \E headers \in Headers, kwargs \in Step2Inputs, handle \in BOOLEAN, F \in FailurePlans :
       Submit(2, headers, kwargs, handle, F)
  \/ \E headers \in Headers, kwargs \in Step3Inputs, handle \in BOOLEAN, F \in FailurePlans :
       Submit(3, headers, kwargs, handle, F)
  \/ \E headers \in Headers, handle \in BOOLEAN, F \in FailurePlans :
       Restart(headers, handle, F)
  \/ Return

SpecApp == InitApp /\ [][NextApp]_vars

\* ------------------------------------------------- the report job
\* analyze_data.py reads the sheet the form writes: load_data_from_sheets
\* and calculate_funnel_metrics of analytics_utils.py. A DataFrame is the
\* sequence of its column names and the sequence of its rows.

\* analytics_utils.py lines 87-88
timestamp_cols ==
  << "Apertura Pagina", "Inizio Form", "Timestamp Step 2", "Timestamp Step 3",
     "Timestamp Completamento" >>

\* the column names the job reads in lines 87-98 and 155-164
ReadColumns == Range(timestamp_cols) \cup { "Session ID", "Stato" }

DataFrame(columns, rows) == [ loaded |-> TRUE, columns |-> columns, rows |-> rows ]
NoData == [ loaded |-> FALSE, columns |-> << >>, rows |-> << >> ]

\* data[name] of a row
Cell(data, row, name) ==
  row[CHOOSE c \in 1..Len(data.columns) : data.columns[c] = name]

\* the characters of the texts the job matches
ReportChars ==
  ("" :> << >>)
  @@ ("page_opened" :> << "p","a","g","e","_","o","p","e","n","e","d" >>)
  @@ ("started" :> << "s","t","a","r","t","e","d" >>)
  @@ ("form_started" :> << "f","o","r","m","_","s","t","a","r","t","e","d" >>)
  @@ ("step2_completed" :> << "s","t","e","p","2","_","c","o","m","p","l","e","t","e","d" >>)
  @@ ("step3_completed" :> << "s","t","e","p","3","_","c","o","m","p","l","e","t","e","d" >>)
  @@ ("fully_completed" :> << "f","u","l","l","y","_","c","o","m","p","l","e","t","e","d" >>)
  @@ ("Sì" :> << "S", "ì" >>) @@ ("No" :> << "N", "o" >>)
  @@ ("sì" :> << "s", "ì" >>) @@ ("si" :> << "s", "i" >>)
  @@ ("yes" :> << "y", "e", "s" >>) @@ ("true" :> << "t", "r", "u", "e" >>)

\* len(data[data[name].str.contains('a|b|...')]), the text lowered first when
\* lowered is set
CountContains(data, name, alternatives, lowered) ==
  Cardinality({ i \in 1..Len(data.rows) :
    LET text == ReportChars[Cell(data, data.rows[i], name)]
    IN \E pattern \in alternatives :
         Contains(IF lowered THEN Lower(text) ELSE text, ReportChars[pattern]) })

\* lines 64-111: the rows of the sheet whose 'Session ID' is not empty; None
\* when the read raises, when there is no row under the header and when a
\* column is missing (the KeyError of line 97 is caught at line 109)
load_data_from_sheets(grid, raises) ==
  IF raises THEN NoData
  ELSE IF Len(grid) <= 1 THEN NoData
  ELSE IF "Session ID" \notin Range(grid[1]) THEN NoData
  ELSE LET data == DataFrame(grid[1], Tail(grid))
       IN DataFrame(grid[1],
                    SelectSeq(data.rows, LAMBDA row : Cell(data, row, "Session ID") # ""))

\* lines 139-178: the counts of the funnel; data['Stato'] of line 160 raises
\* KeyError when the column is missing
calculate_funnel_metrics(data) ==
  IF ~data.loaded \/ Len(data.rows) = 0 THEN Returns(EmptyDict)
  ELSE IF "Stato" \notin Range(data.columns) THEN Raises
  ELSE LET page_opens0 == CountContains(data, "Stato",
                            { "page_opened", "started", "form_started" }, FALSE)
           form_starts == CountContains(data, "Stato", { "form_started" }, FALSE)
           step2_completes == CountContains(data, "Stato", { "step2_completed" }, FALSE)
           step3_completes == CountContains(data, "Stato", { "step3_completed" }, FALSE)
           full_completes == CountContains(data, "Stato", { "fully_completed" }, FALSE)
           page_opens == IF page_opens0 = 0 THEN Len(data.rows) ELSE page_opens0
       IN Returns([ page_opens |-> page_opens,
                    form_starts |-> IF form_starts > 0 THEN form_starts
                                    ELSE (page_opens * 6) \div 10,
                    step2_completes |-> IF step2_completes > 0 THEN step2_completes
                                        ELSE (page_opens * 4) \div 10,
                    step3_completes |-> IF step3_completes > 0 THEN step3_completes
                                        ELSE page_opens \div 4,
                    full_completes |-> IF full_completes > 0 THEN full_completes
                                       ELSE CountContains(data, "Completato",
                                              { "sì", "si", "yes", "true" }, TRUE) ])

\* analyze_data.py lines 38-53: the job loads the sheet and, when rows were
\* loaded, computes the funnel
Report(raises) ==
  LET data == load_data_from_sheets(sheet, raises)
  IN /\ visit.op = "none" /\ page.op = "none"
     /\ visit' = [ op |-> "report", raises |-> raises, data |-> data,
                   funnel |-> calculate_funnel_metrics(data) ]
     /\ UNCHANGED << sheet, now, call, hist, form, procs >>

\* the job ends
Reported ==
  /\ visit.op = "report"
  /\ visit' = NoVisit
  /\ UNCHANGED << sheet, now, call, hist, form, procs >>

NextReport ==
  \/ visit.op = "none" /\ NextApp
  \/ \E raises \in BOOLEAN : Report(raises)
  \/ Reported

SpecReport == InitApp /\ [][NextReport]_vars

\* ------------------------------------------------- the classifier at work
\* the requests put to the classifier: a browser, command line clients, a
\* crawler, a probe without headers
UserAgents ==
  { "",
      "Unknown",
      "Mozilla/5.0 (X11; Linux x86_64) Gecko/20100101 Firefox/120.0",
      "curl/8.4.0",
      "Python",
      "Googlebot/2.1 (+http://www.google.com/bot.html)" }
Referers == { "", "https://www.google.com/", "https://demo.example/healthz" }
Hosts == { "", "demo.example" }
Requests ==
  { Request(available, ua @@ referer @@ host) :
      available \in BOOLEAN,
      ua \in Optional("user-agent", UserAgents),
      referer \in Optional("referer", Referers),
      host \in Optional("host", Hosts) }

InitVisit ==
  /\ sheet = << >>
  /\ now = 0
  /\ call = NoCall
  /\ hist = History
  /\ session_state = EmptyDict
  /\ minted = 0
  /\ page = NoPage
  /\ visit = NoVisit
  /\ procs = NoProcs

\* one request is classified: should_track_visit() and
\* is_bot_or_health_check() are asked
Classify(request) ==
  /\ visit' = [ op |-> "classify", request |-> request,
                track |-> should_track_visit_call(request),
                bot |-> is_bot_or_health_check(request) ]
  /\ UNCHANGED << sheet, now, call, hist, form, procs >>

NextVisit == \E request \in Requests : Classify(request)

SpecVisit == InitVisit /\ [][NextVisit]_vars

\* ------------------------------------------------- frequent visits
\* is_frequent_visitor (lines 349-374) compares the clock, in seconds, with
\* st.session_state.last_access_time.

\* line 365: "if time_diff < 120"
FrequentSeconds == 120

\* the clock stops here
MaxSeconds == 400

\* seconds between one check and the next
Elapsed == { 30, 60, 100, 119, 120, 150 }

\* lines 349-374: True, and nothing recorded, when the recorded time is less
\* than 120 seconds old; otherwise the current time is recorded and the
\* result is False
is_frequent_visitor(ss, current_time) ==
  IF /\ "last_access_time" \in DOMAIN ss
     /\ current_time - ss["last_access_time"] < FrequentSeconds
  THEN [ session_state |-> ss, returned |-> TRUE ]
  ELSE [ session_state |-> [ last_access_time |-> current_time ] @@ ss,
         returned |-> FALSE ]

InitPoll == InitVisit

\* the same session calls is_frequent_visitor() dt seconds after its last
\* call; visit keeps whether a call was made before this one, its time, and
\* how many calls were made at the same distance
Check(dt) ==
  LET out == is_frequent_visitor(session_state, now + dt)
      first == visit.op # "check"
  IN /\ now + dt <= MaxSeconds
     /\ now' = now + dt
     /\ session_state' = out.session_state
     /\ visit' = [ op |-> "check", at |-> now + dt, dt |-> dt,
                   again |-> ~first,
                   previous |-> IF first THEN 0 ELSE visit.at,
                   steady |-> IF first THEN 1
                              ELSE IF visit.dt = dt THEN visit.steady + 1 ELSE 1,
                   returned |-> out.returned ]
     /\ UNCHANGED << sheet, call, hist, minted, page, procs >>

NextPoll == \E dt \in Elapsed : Check(dt)

SpecPoll == InitPoll /\ [][NextPoll]_vars

\* ------------------------------------------------- two writers at once
\* Two script runs upsert at the same time: each store call of
\* save_to_google_sheets_fixed is one step, and the steps of the two runs
\* interleave.  Every store call goes through here.
Writers == { "w1", "w2" }

\* what the two runs upsert: the first one a step 1 of session s1, the other
\* one a step 2 of the same or of another session
WriterData(w, id) ==
  IF w = "w1"
  THEN [ session_id |-> id, qr_location |-> "Bar/Ristorante",
         status |-> "form_started" ]
  ELSE [ session_id |-> id, age_range |-> "24-29", status |-> "step2_completed" ]

\* a run at the start of save_to_google_sheets_fixed: since is the store at
\* that moment; row and col are existing_row_index and col_index
Started(data, grid) ==
  [ pc |-> "check", data |-> data, fixed_row |-> FixedRow(data, 0),
    row |-> 0, col |-> 0, cleared |-> FALSE, since |-> grid ]

ConcSheets ==
  { << >>, << FIXED_HEADERS >>, << FIXED_HEADERS, OldRow("s0"), OldRow(SessionId(1)) >> }

InitConc ==
  /\ sheet \in ConcSheets
  /\ now = 0
  /\ call = NoCall
  /\ hist = History
  /\ session_state = EmptyDict
  /\ minted = 0
  /\ page = NoPage
  /\ visit = NoVisit
  /\ \E id \in Ids :
       procs = [ w \in Writers |->
                   Started(WriterData(w, IF w = "w1" THEN SessionId(1) ELSE id), sheet) ]

Goes(w, pc) == procs' = [procs EXCEPT ![w].pc = pc]
Rest == << now, call, hist, form, visit >>

\* the next column from col_index on whose value is written (line 187)
NextWritten(fixed_row, col_index) ==
  LET cols == { c \in col_index..NumColumns : Truthy(fixed_row[c]) }
  IN IF cols = {} THEN 0 ELSE CHOOSE c \in cols : \A d \in cols : c <= d

\* lines 118-123: existing_data = sheet.get_all_values() and the test
ReadHeader(w) ==
  /\ procs[w].pc = "check"
  /\ LET existing_data == get_all_values(sheet)
     IN Goes(w, IF existing_data = << >> \/ existing_data[1] # FIXED_HEADERS
                THEN "clear" ELSE "scan")
  /\ UNCHANGED << sheet, Rest >>

\* line 126: sheet.clear()
ClearSheet(w) ==
  /\ procs[w].pc = "clear"
  /\ sheet' = clear(sheet)
  /\ procs' = [procs EXCEPT ![w].pc = "header", ![w].cleared = TRUE]
  /\ UNCHANGED Rest

\* line 127: sheet.append_row(FIXED_HEADERS)
WriteHeader(w) ==
  /\ procs[w].pc = "header"
  /\ sheet' = append_row(sheet, FIXED_HEADERS)
  /\ Goes(w, "scan")
  /\ UNCHANGED Rest

\* lines 176-184: all_data = sheet.get_all_values() and the scan
Scan(w) ==
  /\ procs[w].pc = "scan"
  /\ LET all_data == get_all_values(sheet)
         existing_row_index ==
           ExistingRowIndex(all_data, Get(procs[w].data, "session_id", ""))
     IN procs' = [procs EXCEPT
                    ![w].row = existing_row_index,
                    ![w].col = NextWritten(procs[w].fixed_row, 1),
                    ![w].pc = IF existing_row_index # 0 THEN "update" ELSE "append"]
  /\ UNCHANGED << sheet, Rest >>

\* line 188: one sheet.update_cell(existing_row_index, col_index, value)
UpdateCell(w) ==
  /\ procs[w].pc = "update"
  /\ sheet' = update_cell(sheet, procs[w].row, procs[w].col,
                          procs[w].fixed_row[procs[w].col])
  /\ LET next == NextWritten(procs[w].fixed_row, procs[w].col + 1)
     IN procs' = [procs EXCEPT ![w].col = next,
                               ![w].pc = IF next = 0 THEN "done" ELSE "update"]
  /\ UNCHANGED Rest

\* line 191: sheet.append_row(fixed_row)
AppendRow(w) ==
  /\ procs[w].pc = "append"
  /\ sheet' = append_row(sheet, procs[w].fixed_row)
  /\ Goes(w, "done")
  /\ UNCHANGED Rest

NextConc ==
  \E w \in Writers :
    \/ ReadHeader(w)
    \/ ClearSheet(w)
    \/ WriteHeader(w)
    \/ Scan(w)
    \/ UpdateCell(w)
    \/ AppendRow(w)

SpecConc == InitConc /\ [][NextConc]_vars

\* ------------------------------------------------------------- vocabulary
HeaderOk(grid) == grid # << >> /\ grid[1] = FIXED_HEADERS
Entries(log) == { log[i] : i \in 1..Len(log) }
Raised(log) == Cardinality({ i \in 1..Len(log) : ~log[i].ok })
Cleared(log) == \E e \in Entries(log) : e.op = "clear" /\ e.ok
\* the store calls that write a data row or a cell of one
RowWrites(log) ==
  { e \in Entries(log) :
      \/ e.op = "update_cell"
      \/ e.op = "append_row" /\ e.arg # FIXED_HEADERS }
SchemaChecked == call.op = "init" \/ (call.op = "save" /\ call.handle)
UpsertOk == call.op = "save" /\ call.result
UpsertId == call.data["session_id"]

\* the key of the session record behind each column; Completato and
\* Data_Creazione are computed
ColumnKeys ==
  << "session_id", "page_open_timestamp", "form_started_timestamp",
     "step2_timestamp", "completion_timestamp", "qr_location", "age_range",
     "gender", "birth_province", "education", "status", "completed",
     "user_agent", "" >>
Known(data, key) == key \in DOMAIN data /\ data[key] # None

\* ------------------------------------------------------------------ claims

\* C1: a successful upsert for a session id that no data row of the store
\* carried leaves exactly one row whose first cell is that id.
C1_NewSessionOneRow ==
  (UpsertOk /\ RowsOf(call.pre, UpsertId) = {})
    => Cardinality({ i \in 1..Len(sheet) : sheet[i][1] = UpsertId }) = 1

C1_Witness ==
  /\ UpsertOk /\ RowsOf(call.pre, UpsertId) = {}
  /\ HeaderOk(call.pre) /\ Len(call.pre) > 1
  /\ Len(sheet) = Len(call.pre) + 1
  /\ sheet[Len(sheet)][1] = UpsertId

\* C2: after any sequence of upserts that all returned True, the row of each
\* upserted session holds, in every column a non-empty value was supplied
\* for, the most recent such value.
C2_MergedRow ==
  hist.allok =>
    \A id \in hist.upserted :
      /\ RowsOf(sheet, id) # {}
      /\ \A c \in 1..NumColumns :
           hist.latest[id][c] # "" =>
             sheet[FirstRowOf(sheet, id)][c] = hist.latest[id][c]

\* C3: a run of the script for a request that should_track_visit rejects
\* writes nothing to the store: no row is appended and no cell is updated.
C3_RejectedVisitNoWrite ==
  (page.op # "none" /\ ~should_track_visit(page.headers)) =>
    /\ { e \in RowWrites(call.log) : e.ok } = {}
    /\ Len(sheet) <= Len(page.pre)

\* C4: starting from an empty store, after upserts that all returned True the
\* store is the header row followed by exactly one row per upserted session.
C4_OneRowPerSession ==
  (hist.empty0 /\ hist.allok /\ hist.upserted # {}) =>
    /\ HeaderOk(sheet)
    /\ Len(sheet) = 1 + Cardinality(hist.upserted)
    /\ \A id \in hist.upserted : Cardinality(RowsOf(sheet, id)) = 1

\* C5 as stated: when the store is empty or its first row is not the header,
\* the schema check clears the store and leaves the header as its only row.
C5_AlwaysResets ==
  (call.op = "init" /\ ~HeaderOk(call.pre)) =>
    (Cleared(call.log) /\ sheet = << FIXED_HEADERS >>)

\* C5 amended: when the store is empty or its first row is not the header, a
\* schema check that returns True has cleared the store and left the header
\* as its only row; and it returns True whenever no store call raises.
C5_MismatchResets ==
  (SchemaChecked /\ ~HeaderOk(call.pre)) =>
    /\ call.checked => (call.mid = << FIXED_HEADERS >> /\ Cleared(call.log))
    /\ Raised(call.log) = 0 => call.checked

C5_Witness ==
  /\ call.op = "init" /\ call.result
  /\ Len(call.pre) > 1 /\ call.pre[1] # FIXED_HEADERS
  /\ sheet = << FIXED_HEADERS >>

\* C6: when the first row of the store is the header, the schema check
\* clears nothing and leaves every row as it was.
C6_MatchingHeaderUntouched ==
  (SchemaChecked /\ HeaderOk(call.pre)) =>
    (~Cleared(call.log) /\ call.mid = call.pre)

\* C7 as stated: the schema check returns True if and only if the first row
\* of the store is the header when it returns.
C7_TrueIffHeader ==
  call.op = "init" => (call.result <=> HeaderOk(sheet))

\* C7 amended: the schema check returns True only if the first row of the
\* store is the header when it returns, and it returns False exactly when
\* two of its store calls raised.
C7_TrueOnlyIfHeader ==
  /\ SchemaChecked => (call.checked => HeaderOk(call.mid))
  /\ call.op = "init" => (call.result <=> Raised(call.log) < 2)

C7_Witness ==
  /\ call.op = "init" /\ call.result /\ Raised(call.log) = 1
  /\ Len(call.pre) > 1 /\ sheet = << FIXED_HEADERS >>

\* C8: when the sheet object is absent or the schema check returns False,
\* the upsert returns False and appends no row and updates no cell.
C8_NoWriteWithoutSchema ==
  (call.op = "save" /\ ~call.checked) =>
    /\ ~call.result
    /\ sheet = call.mid
    /\ RowWrites(call.log) = {}

C8_Witness ==
  /\ call.op = "save" /\ call.handle /\ ~call.checked /\ ~call.result
  /\ Raised(call.log) = 2

\* C9: a row the upsert appends has 14 cells in the order of the header: a
\* field the record knows holds its value, a field it does not know (key
\* absent, or None) is the empty string, and Completato is 'Sì' or 'No'.
C9_AppendedRowFixed ==
  \A e \in RowWrites(call.log) :
    (call.op = "save" /\ e.op = "append_row" /\ e.ok) =>
      LET row == sheet[Len(sheet)] IN
      /\ Len(e.arg) = NumColumns
      /\ Len(row) = NumColumns
      /\ \A c \in 1..NumColumns :
           IF c = ColCompletato THEN row[c] \in { "Sì", "No" }
           ELSE IF c = ColCreazione THEN row[c] # ""
           ELSE row[c] = IF Known(call.data, ColumnKeys[c])
                         THEN call.data[ColumnKeys[c]] ELSE ""

C9_Witness ==
  /\ call.op = "save" /\ call.result
  /\ Len(sheet) = Len(call.mid) + 1
  /\ "qr_location" \in DOMAIN call.data /\ call.data["qr_location"] = None
  /\ "status" \notin DOMAIN call.data
  /\ sheet[Len(sheet)][ColQr] = "" /\ sheet[Len(sheet)][ColStatus] = ""
  /\ sheet[Len(sheet)][ColCompletato] = "No"

\* C10: in every reachable state of the store, each data row holds 'Sì' in
\* Completato if and only if it holds 'fully_completed' in Status_Finale.
C10_CompletatoIffFullyCompleted ==
  \A i \in 2..Len(sheet) :
    (sheet[i][ColCompletato] = "Sì") <=> (sheet[i][ColStatus] = "fully_completed")

Classified == visit.op = "classify"
Header(key) == Get(visit.request.headers, key, None)
\* the header is not there, is empty, or is the fallback of a missing one
Missing(key) == Header(key) \in { None, "", "Unknown" }
BrowserAgent == "Mozilla/5.0 (X11; Linux x86_64) Gecko/20100101 Firefox/120.0"

\* C12: should_track_visit returns False when the user-agent is 'Unknown'
\* (the value used when the header is absent), and True for a browser
\* user-agent with referrer and host present.
C12_SentinelRejected ==
  (Classified /\ visit.request.available) =>
    /\ ~visit.track.raised
    /\ UserAgentOf(visit.request.headers) = "Unknown" => ~visit.track.value
    /\ ( Header("user-agent") = BrowserAgent
         /\ ~Missing("referer") /\ ~Missing("host") ) => visit.track.value

C12_Witness ==
  /\ Classified /\ visit.request.available
  /\ "user-agent" \notin DOMAIN visit.request.headers
  /\ ~Missing("referer") /\ ~Missing("host")
  /\ ~visit.track.raised /\ ~visit.track.value

\* C13: when reading the request headers raises, should_track_visit yields
\* True: it neither raises nor rejects the visit.
C13_FailsOpen ==
  (Classified /\ ~visit.request.available) =>
    (~visit.track.raised /\ visit.track.value)

\* C14: a visit whose user-agent, referrer and host are each absent, empty
\* or the fallback of a missing header is rejected.
C14_NoBrowserContextRejected ==
  ( Classified /\ visit.request.available
    /\ Missing("user-agent") /\ Missing("referer") /\ Missing("host") ) =>
    (~visit.track.raised /\ ~visit.track.value)

\* ------------------------------------------------------ claims on the form
GeneratedIds == { SessionId(k) : k \in 1..minted }

\* C15: the row of every session id the application generates, the one
\* generated by reset_session included, was created by the page view that
\* opened the session: it carries the page-open timestamp and the user-agent.
C15_RowCreatedOnPageView ==
  \A i \in 2..Len(sheet) :
    sheet[i][ColSession] \in GeneratedIds =>
      (sheet[i][ColOpened] # "" /\ sheet[i][ColUserAgent] # "")

\* ------------------------------------------------- more claims on the store
\* the row keeps its session id and every cell that was not empty stays
\* not empty
Kept(grid, old) ==
  \E j \in 2..Len(grid) :
    /\ grid[j][ColSession] = old[ColSession]
    /\ \A c \in 1..NumColumns : old[c] # "" => grid[j][c] # ""

\* C16: an upsert or a schema check, whatever the outcome of its store
\* calls, deletes no session row: every data row of a store with the right
\* header is still there afterwards, with the fields that were written.
C16_NoRowDeleted ==
  (call.op # "none" /\ HeaderOk(call.pre)) =>
    \A i \in 2..Len(call.pre) : Kept(sheet, call.pre[i])

\* C17: when several rows carry the upserted session id, only the first of
\* them is updated: no row is appended and every other row, the later
\* duplicates included, is as it was.
C17_FirstMatchOnly ==
  (call.op = "save" /\ call.handle /\ Cardinality(RowsOf(call.pre, UpsertId)) > 1) =>
    /\ Len(sheet) = Len(call.pre)
    /\ \A i \in 1..Len(sheet) :
         i # FirstRowOf(call.pre, UpsertId) => sheet[i] = call.pre[i]

\* the same, for the upserts whose schema check met no raising store call
C17_FirstMatchOnlyUndisturbed ==
  (call.op = "save" /\ call.checked /\ call.mid = call.pre
   /\ Cardinality(RowsOf(call.pre, UpsertId)) > 1) =>
    /\ Len(sheet) = Len(call.pre)
    /\ \A i \in 1..Len(sheet) :
         i # FirstRowOf(call.pre, UpsertId) => sheet[i] = call.pre[i]

\* ------------------------------------------------ claims on two writers
BothDone == procs # NoProcs /\ \A w \in Writers : procs[w].pc = "done"
WriterId(w) == procs[w].data["session_id"]
\* the row of the writer's session holds what the writer supplied
Supplied(w) ==
  \E i \in RowsOf(sheet, WriterId(w)) :
    \A c \in 1..NumColumns :
      Truthy(procs[w].fixed_row[c]) => sheet[i][c] = procs[w].fixed_row[c]

\* C18: when two upserts for different session ids run at the same time,
\* however their store calls interleave, the store ends with one row for
\* each of the two sessions, holding what that session supplied.
C18_DistinctSessionsIndependent ==
  (BothDone /\ WriterId("w1") # WriterId("w2")) =>
    \A w \in Writers :
      Cardinality(RowsOf(sheet, WriterId(w))) = 1 /\ Supplied(w)

\* C19: the scan and the write of an upsert are two steps: when two upserts
\* for one session id both scanned before either appended, and neither
\* cleared the store, the store ends with two rows for that session id.
C19_ScanThenWriteNotAtomic ==
  ( BothDone /\ WriterId("w1") = WriterId("w2")
    /\ \A w \in Writers : procs[w].row = 0 /\ ~procs[w].cleared ) =>
    Cardinality(RowsOf(sheet, WriterId("w1"))) = 2

C19_Witness ==
  /\ BothDone /\ WriterId("w1") = WriterId("w2")
  /\ \A w \in Writers : procs[w].row = 0 /\ ~procs[w].cleared
  /\ sheet = << FIXED_HEADERS, procs["w2"].fixed_row, procs["w1"].fixed_row >>

\* the status save_step_data gives the session record at each step
StatusOfStep == << "form_started", "step2_completed", "fully_completed" >>
Submitted == page.op = "submit" /\ page.valid

\* C20: whenever the input of a step is valid, the step counter goes up by
\* one and the session record in memory takes the step's data, whether the
\* sheet is there or not and whether the upsert returned True or False.
C20_FormNeverBlocked ==
  Submitted =>
    LET step == page.before["step"]
        user_data == session_state["user_data"]
    IN /\ session_state["step"] = step + 1
       /\ Get(user_data, "status", "") = StatusOfStep[step]
       /\ step = 1 => Get(user_data, "qr_location", "") = page.kwargs["qr_location"]
       /\ step = 2 =>
            \A key \in { "age_range", "gender", "birth_province", "education" } :
              Get(user_data, key, "") = page.kwargs[key]
       /\ step = 3 => Get(user_data, "completed", FALSE) = TRUE

C20_Witness ==
  /\ Submitted /\ page.before["step"] = 2
  /\ call.op = "save" /\ ~call.result /\ ~page.returned
  /\ session_state["step"] = 3
  /\ session_state["user_data"]["status"] = "step2_completed"

\* the first row of the session of the last upsert, as the store holds it now
RowNow == sheet[FirstRowOf(sheet, call.data["session_id"])]

\* C21: after a successful upsert the session's row has the status the upsert
\* supplied and Completato "Sì" exactly when the record had completed set; a
\* row that was there before keeps every field the upsert left empty, so the
\* fields of the two steps are both in the row.
C21_LatestStatusWins ==
  UpsertOk /\ "session_id" \in DOMAIN call.data =>
    LET id == call.data["session_id"]
        status == Get(call.data, "status", "")
    IN /\ RowsOf(sheet, id) # {}
       /\ Truthy(status) => RowNow[ColStatus] = status
       /\ RowNow[ColCompletato] =
            (IF Get(call.data, "completed", FALSE) = TRUE THEN "Sì" ELSE "No")
       /\ RowsOf(call.mid, id) # {} =>
            LET old == call.mid[FirstRowOf(call.mid, id)]
            IN \A c \in 1..NumColumns \ { ColCompletato, ColCreazione } :
                 RowNow[c] = IF Truthy(FixedRow(call.data, 0)[c])
                             THEN FixedRow(call.data, 0)[c] ELSE old[c]

C21_Witness ==
  /\ UpsertOk /\ Submitted /\ page.before["step"] = 2
  /\ RowsOf(call.mid, call.data["session_id"]) # {}
  /\ call.mid[FirstRowOf(call.mid, call.data["session_id"])][ColStatus] = "form_started"
  /\ RowNow[ColQr] = "Bar/Ristorante" /\ RowNow[ColAge] # ""
  /\ RowNow[ColStatus] = "step2_completed" /\ RowNow[ColCompletato] = "No"

\* C22: an upsert that updates the row the session already has leaves the
\* Data_Creazione cell of that row as it was when the row was appended.
C22_CreationTimeKept ==
  UpsertOk /\ "session_id" \in DOMAIN call.data
           /\ RowsOf(call.mid, call.data["session_id"]) # {} =>
    /\ RowsOf(sheet, call.data["session_id"]) # {}
    /\ RowNow[ColCreazione] =
         call.mid[FirstRowOf(call.mid, call.data["session_id"])][ColCreazione]

Checked == visit.op = "check"

\* C23: a check returns True exactly when the session made a check before and
\* less than 120 seconds went by since that check, and every check leaves the
\* current time as the session's last_access_time; so from the second of the
\* checks made at one distance shorter than 120 seconds on, each is flagged.
C23_FlaggedIffRecentCheck ==
  Checked =>
    /\ visit.returned <=>
         (visit.again /\ visit.at - visit.previous < FrequentSeconds)
    /\ session_state["last_access_time"] = visit.at
    /\ (visit.again /\ visit.dt < FrequentSeconds) => visit.returned

\* C24: the column names the report job reads are names of the canonical
\* header, so that from a sheet with the canonical header the job loads every
\* row that has a session id and computes the funnel from them.
C24_JobReadsCanonicalColumns ==
  visit.op = "report" /\ ~visit.raises /\ HeaderOk(sheet) /\ Len(sheet) > 1 =>
    /\ ReadColumns \subseteq Range(FIXED_HEADERS)
    /\ visit.data.loaded
    /\ Len(visit.data.rows) =
         Cardinality({ i \in 2..Len(sheet) : sheet[i][ColSession] # "" })
    /\ ~visit.funnel.raised

\* the store calls of the last upsert that raised, by their position
FailedCalls == { i \in 1..Len(call.log) : ~call.log[i].ok }

\* the values of a record that are texts
Texts(record) == { record[key] : key \in DOMAIN record \ { "completed" } }

\* C25: the e-mail typed at step 3 is in no cell of the store, in no field of
\* the session record in memory and in no field of the download; and the
\* record, the store and the download left by the handler of step 3 are the
\* ones any other e-mail would have left.
C25_EmailNeverPersisted ==
  /\ \A i \in 1..Len(sheet) : Range(sheet[i]) \cap Emails = {}
  /\ "user_data" \in DOMAIN session_state =>
       /\ Texts(session_state["user_data"]) \cap Emails = {}
       /\ Texts(create_data_download(session_state["user_data"], now)) \cap Emails = {}
  /\ Submitted /\ page.before["step"] = 3 =>
       \A m \in Emails :
         LET other == step_handler(3, page.before, [ email_input |-> m ],
                                   call.op = "save", page.pre, now - 1, FailedCalls)
         IN /\ other.session_state["user_data"] = session_state["user_data"]
            /\ other.out.sheet = sheet
            /\ create_data_download(other.session_state["user_data"], now)
                 = create_data_download(session_state["user_data"], now)

C25_Witness ==
  /\ Submitted /\ page.before["step"] = 3 /\ page.kwargs["email_input"] = "c@d.it"
  /\ UpsertOk /\ session_state["step"] = 4
  /\ RowNow[ColStatus] = "fully_completed"

\* C26: a call of track_page_opening returns False only when an earlier call
\* of the same session returned True (the session record then has its
\* page_open_timestamp); the call that returns True sets page_open_timestamp,
\* status page_opened and user_agent and hands that record to the one upsert
\* of the run; a call that returns False in a run without a handled button
\* writes nothing and leaves the session state as it was.
C26_TrackedOncePerSession ==
  page.op # "none" =>
    /\ ~page.tracked =>
         /\ "user_data" \in DOMAIN page.before
         /\ "page_open_timestamp" \in DOMAIN page.before["user_data"]
    /\ page.tracked =>
         LET user_data == session_state["user_data"]
         IN /\ { "page_open_timestamp", "status", "user_agent" } \subseteq DOMAIN user_data
            /\ user_data["status"] = "page_opened"
            /\ user_data["user_agent"] = UserAgentOf(page.headers)
            /\ call.op = "save" => call.data = user_data
    /\ ~page.tracked /\ page.op = "load" =>
         /\ session_state = page.before
         /\ sheet = page.pre
         /\ call = NoCall

StartedStatuses == { "form_started", "step2_completed", "fully_completed" }
AnsweredStatuses == { "step2_completed", "fully_completed" }
ColGender == 8
ColProvince == 9
ColEducation == 10

\* C27: in every store the form flow reaches, failed and partly applied
\* writes included, a row whose Status_Finale is form_started or later has
\* its Dove_Trovato_QR, and a row whose Status_Finale is step2_completed or
\* fully_completed has Fascia_Eta, Sesso, Provincia_Nascita and Titolo_Studio.
C27_StatusImpliesFields ==
  \A i \in 1..Len(sheet) :
    /\ sheet[i][ColStatus] \in StartedStatuses => sheet[i][ColQr] # ""
    /\ sheet[i][ColStatus] \in AnsweredStatuses =>
         \A c \in { ColAge, ColGender, ColProvince, ColEducation } : sheet[i][c] # ""

C27_Witness ==
  /\ Submitted /\ page.before["step"] = 2
  /\ call.op = "save" /\ ~call.result
  /\ RowsOf(sheet, call.data["session_id"]) # {}
  /\ call.mid[FirstRowOf(call.mid, call.data["session_id"])][ColStatus] = "form_started"
  /\ RowNow[ColStatus] = "step2_completed"
  /\ \E e \in Entries(call.log) :
       e.op = "update_cell" /\ ~e.ok /\ e.arg[2] = ColCompletato

\* the positions in the record of store calls where a cell was written, and
\* the one where the write raised
CellWrites == { i \in 1..Len(call.log) : call.log[i].op = "update_cell" }
FailedWrite == CHOOSE i \in CellWrites : ~call.log[i].ok

\* C28: the cells of an existing row are written one by one in the order of
\* the columns; when the write of column k raises, the upsert returns False,
\* the matched row has the non-empty new values in the columns before k and
\* its old values from column k on, and every other row is as it was.
C28_PartialUpdate ==
  call.op = "save" =>
    /\ \A i, j \in CellWrites : i < j => call.log[i].arg[2] < call.log[j].arg[2]
    /\ (\E i \in CellWrites : ~call.log[i].ok) =>
         LET row_index == call.log[FailedWrite].arg[1]
             k == call.log[FailedWrite].arg[2]
             fixed_row == FixedRow(call.data, now - 1)
             old == call.mid[row_index]
         IN /\ ~call.result
            /\ row_index = FirstRowOf(call.mid, call.data["session_id"])
            /\ Len(sheet) = Len(call.mid)
            /\ \A c \in 1..NumColumns :
                 sheet[row_index][c] =
                   IF c < k /\ Truthy(fixed_row[c]) THEN fixed_row[c] ELSE old[c]
            /\ \A r \in 1..Len(sheet) : r # row_index => sheet[r] = call.mid[r]

C28_Witness ==
  /\ call.op = "save" /\ ~call.result
  /\ \E i \in CellWrites : ~call.log[i].ok /\ call.log[i].arg[2] = ColStatus
  /\ \E i \in CellWrites : call.log[i].ok /\ call.log[i].arg[2] = ColQr
  /\ Len(sheet) >= 3
  /\ RowNow[ColQr] = call.data["qr_location"] /\ RowNow[ColStatus] = "page_opened"

\* C29: whatever the order of the store calls of two upserts at once, no data
\* row of the store is the canonical header, when both upserts are over the
\* header is row 1, and a writer about to update a cell of the row its scan
\* found has a row of its own session id under that index.
C29_HeaderOnceUnderInterleaving ==
  /\ \A i \in 2..Len(sheet) : sheet[i] # FIXED_HEADERS
  /\ BothDone => HeaderOk(sheet)
  /\ \A w \in Writers :
       procs[w].pc = "update" =>
         /\ procs[w].row <= Len(sheet)
         /\ sheet[procs[w].row][ColSession] = WriterId(w)

\* the step counter before the run, as initialize_session_state leaves it
StepBefore == IF "step" \in DOMAIN page.before THEN page.before["step"] ELSE 1

\* the input of the pressed button passes for the step: consent and a QR
\* location at step 1, the four answers at step 2, an e-mail at step 3
Passes(step, kwargs) ==
  IF step = 1 THEN kwargs["consent"] /\ kwargs["qr_location"] # ""
  ELSE IF step = 2
  THEN \A key \in { "age_range", "gender", "birth_province", "education" } :
         kwargs[key] # ""
  ELSE kwargs["email_input"] # ""

\* C30: the step counter is 1, 2, 3 or 4; a run moves it only by one step up,
\* when the button of the step was pressed with input that passes, or from 4
\* to 1 when the demo is restarted, which also gives the session a new id and
\* a record holding nothing but that id; a button pressed with input that
\* does not pass leaves the counter, the session record and the store alone.
C30_StepCounter ==
  /\ "step" \in DOMAIN session_state => session_state["step"] \in 1..4
  /\ page.op = "load" => session_state["step"] = StepBefore
  /\ page.op = "submit" =>
       IF Passes(StepBefore, page.kwargs)
       THEN session_state["step"] = StepBefore + 1
       ELSE /\ session_state = page.before
            /\ sheet = page.pre
            /\ call = NoCall
  /\ page.op = "restart" =>
       /\ StepBefore = 4 /\ session_state["step"] = 1
       /\ session_state["session_id"] # page.before["session_id"]
       /\ session_state["user_data"] = ("session_id" :> session_state["session_id"])

C30_Witness ==
  /\ page.op = "restart"
  /\ page.before["step"] = 4 /\ session_state["step"] = 1
  /\ page.before["session_id"] = SessionId(1)
  /\ session_state["session_id"] = SessionId(2)
  /\ page.before["user_data"]["status"] = "fully_completed"

====
